---- MODULE Spec2Model ----
(***************************************************************************)
(* Model of suwon_mate_admin_tool (src/src/lib.rs, src/src/main.rs):       *)
(* file_process reads the open-class file and the syllabus ("class todo")  *)
(* file, make_db_content merges them into one JSON document.               *)
(***************************************************************************)
EXTENDS Integers, Sequences, FiniteSets, TLC

VARIABLES
    open_class_filename,  \* ProgramArgument.open_class_filename
    class_todo_filename,  \* ProgramArgument.class_todo_filename
    latest_app_version,   \* ProgramArgument.latest_app_version
    db_version,           \* ProgramArgument.db_version
    open_class_content,   \* text read from the open-class file
    class_todo_content,   \* text read from the syllabus file
    quick_mode,           \* flag file_process hands to make_db_content
    pc,                   \* position of the program
    departments_map,      \* HashMap<&str, HashSet<&str>>
    subject_map,          \* HashMap<String, Vec<Value>>
    contact_map,          \* HashMap<String, HashMap<String, Value>>
    i,                    \* number of open-class records the loop has finished
    lookup_args,          \* <<subject_code, dicl_number>> of the latest lookup
    temp,                 \* ClassTodo returned by the latest lookup
    result,               \* document make_db_content returned
    db_file,              \* content of result_<db_version>.json
    prev_result           \* document returned by the previous call (re-run)

vars == <<open_class_filename, class_todo_filename, latest_app_version,
          db_version, open_class_content, class_todo_content, quick_mode, pc,
          departments_map, subject_map, contact_map, i, lookup_args, temp,
          result, db_file, prev_result>>

(***************************************************************************)
(* Bounds of the model.                                                    *)
(***************************************************************************)
MaxTodo == 2   \* longest syllabus array
MaxOpen == 2   \* longest open-class array

(***************************************************************************)
(* serde_json::Value: null, a string, an array.                            *)
(***************************************************************************)
Null == [t |-> "null"]
Str(s) == [t |-> "str", s |-> s]
Arr(a) == [t |-> "arr", a |-> a]

is_null(v) == v.t = "null"
is_str(v) == v.t = "str"
is_array(v) == v.t = "arr"
\* v.as_str().unwrap_or(d)
as_str_or(v, d) == IF is_str(v) THEN v.s ELSE d
\* obj["key"]: Null when the object has no such member
Index(obj, key) == IF key \in DOMAIN obj THEN obj[key] ELSE Null

(***************************************************************************)
(* Input texts.  A text is either not JSON, or the JSON object `data`.     *)
(***************************************************************************)
BadText == [valid |-> FALSE, data |-> [garbage |-> Null]]
TextOf(obj) == [valid |-> TRUE, data |-> obj]
NoArrayText == TextOf([version |-> Str("1")])
ListText(a) == TextOf([estbLectDtaiList |-> Arr(a)])
NoFile == [valid |-> FALSE, data |-> [missing |-> Null]]

\* (subjtCd, diclNo) pairs used in the inputs; they format to "-", "--", "--"
KeyE == <<Null, Null>>
KeyA == <<Str("-"), Null>>
KeyB == <<Null, Str("-")>>
Keys == {KeyE, KeyA, KeyB}
Depts == {Null, Str("D1"), Str("D2")}
Names == {Null, Str("n1")}

MajorOf(k) == IF k = KeyE THEN Str("M1") ELSE IF k = KeyA THEN Str("M2") ELSE Null
EmailOf(k) == IF k = KeyA THEN Null ELSE Str("e1")
PhoneOf(k) == IF k = KeyE THEN Str("p1") ELSE IF k = KeyA THEN Str("p2") ELSE Null

TodoRec(k, d) ==
    [subjtCd |-> k[1], diclNo |-> k[2], estbDpmjNm |-> d,
     estbMjorNm |-> MajorOf(k), email |-> EmailOf(k), mpno |-> PhoneOf(k)]
OpenRec(k, n) ==
    [subjtCd |-> k[1], diclNo |-> k[2], ltrPrfsNm |-> n,
     estbDpmjNm |-> Str("OWN"), estbMjorNm |-> Str("OWNM")]

TodoRecords == {TodoRec(k, d) : k \in Keys, d \in Depts}
OpenRecords == {OpenRec(k, n) : k \in Keys, n \in Names}

SeqsUpTo(S, n) == UNION {[1..m -> S] : m \in 0..n}

TodoTexts == {ListText(a) : a \in SeqsUpTo(TodoRecords, MaxTodo)}
OpenTexts == {ListText(a) : a \in SeqsUpTo(OpenRecords, MaxOpen)}
OtherTexts == {BadText, NoArrayText, NoFile}

(***************************************************************************)
(* ClassTodo                                                               *)
(***************************************************************************)
new(department, major, email, phone) ==
    [department |-> department, major |-> major, email |-> email, phone |-> phone]

\* format!("{}-{}", a, b)
format_key(a, b) == a \o "-" \o b

subject_key(subject) ==
    format_key(as_str_or(Index(subject, "subjtCd"), ""),
               as_str_or(Index(subject, "diclNo"), ""))

fields_of(subject) ==
    new(Index(subject, "estbDpmjNm"), Index(subject, "estbMjorNm"),
        Index(subject, "email"), Index(subject, "mpno"))

RECURSIVE scan_from(_, _, _, _)
scan_from(subjects, k, subject_code, dicl_number) ==
    IF k > Len(subjects)
    THEN new(Null, Null, Null, Null)
    ELSE IF subject_key(subjects[k]) = format_key(subject_code, dicl_number)
         THEN fields_of(subjects[k])
         ELSE scan_from(subjects, k + 1, subject_code, dicl_number)

RECURSIVE scan_back_from(_, _, _, _)
scan_back_from(subjects, k, subject_code, dicl_number) ==
    IF k < 1
    THEN new(Null, Null, Null, Null)
    ELSE IF subject_key(subjects[k]) = format_key(subject_code, dicl_number)
         THEN fields_of(subjects[k])
         ELSE scan_back_from(subjects, k - 1, subject_code, dicl_number)

get_department_info_last(subjects, subject_code, dicl_number) ==
    scan_back_from(subjects, Len(subjects), subject_code, dicl_number)
get_department_info(subjects, subject_code, dicl_number) ==
    scan_from(subjects, 1, subject_code, dicl_number)


(***************************************************************************)
(* State before main calls file_process.                                   *)
(***************************************************************************)
NoResult == [none |-> Null]
EmptyMap == [d \in {} |-> Null]
FileAbsent == [state |-> "absent", text |-> NoResult]
FileEmpty == [state |-> "empty", text |-> NoResult]
FileWritten(text) == [state |-> "written", text |-> text]

Init ==
    /\ open_class_filename \in {"open.json"}
    /\ class_todo_filename \in {"open.json", "todo.json"}
    /\ latest_app_version \in {"2.0"}
    /\ db_version \in {"7"}
    /\ open_class_content = NoFile
    /\ class_todo_content = NoFile
    /\ quick_mode = FALSE
    /\ pc = "start"
    /\ departments_map = EmptyMap
    /\ subject_map = EmptyMap
    /\ contact_map = EmptyMap
    /\ i = 0
    /\ lookup_args = <<"", "">>
    /\ temp = new(Null, Null, Null, Null)
    /\ result = NoResult
    /\ db_file = FileAbsent
    /\ prev_result = NoResult

(***************************************************************************)
(* file_process, up to the call of make_db_content: both files are opened  *)
(* and read, the output file is created, the quick_mode argument is        *)
(* evaluated.  The same name read twice gives the same text; under another *)
(* name the open-class file holds an open-class text or a copy of the      *)
(* syllabus text.                                                          *)
(***************************************************************************)
quick_arg_const == FALSE
quick_arg == open_class_filename = class_todo_filename

file_process ==
    /\ pc = "start"
    /\ \E tc \in TodoTexts \cup OtherTexts :
       \E oc \in IF open_class_filename = class_todo_filename
                 THEN {tc}
                 ELSE OpenTexts \cup OtherTexts \cup {tc} :
          IF oc = NoFile \/ tc = NoFile
          THEN /\ pc' = "exit"
               /\ UNCHANGED <<open_class_content, class_todo_content,
                              quick_mode, db_file>>
          ELSE /\ open_class_content' = oc
               /\ class_todo_content' = tc
               /\ db_file' = FileEmpty
               /\ quick_mode' = quick_arg
               /\ pc' = "call"
    /\ UNCHANGED <<open_class_filename, class_todo_filename,
                   latest_app_version, db_version, departments_map,
                   subject_map, contact_map, i, lookup_args, temp, result,
                   prev_result>>

(***************************************************************************)
(* make_db_content, lines 211-247: parse, seed the three maps from the     *)
(* syllabus departments, fetch the two arrays.                             *)
(***************************************************************************)
todo_subjects == Index(class_todo_content.data, "estbLectDtaiList").a
open_subjects == Index(open_class_content.data, "estbLectDtaiList").a

departments_set_named(departments) ==
    {Index(departments[k], "estbDpmjNm").s :
        k \in {n \in 1..Len(departments) : is_str(Index(departments[n], "estbDpmjNm"))}}
departments_set(departments) ==
    {as_str_or(Index(departments[k], "estbDpmjNm"), "") : k \in 1..Len(departments)}

seed_departments_map_none(set) == EmptyMap
seed_departments_map(set) == [d \in set |-> {}]
seed_subject_map(set) == [d \in set |-> <<>>]
seed_contact_map(set) == [d \in set |-> EmptyMap]

make_db_content_begin ==
    /\ pc = "call"
    /\ IF ~open_class_content.valid \/ ~class_todo_content.valid
       THEN /\ pc' = "exit"
            /\ UNCHANGED <<departments_map, subject_map, contact_map>>
       ELSE IF ~is_array(Index(class_todo_content.data, "estbLectDtaiList"))
       THEN /\ pc' = "exit"
            /\ UNCHANGED <<departments_map, subject_map, contact_map>>
       ELSE LET set == departments_set(todo_subjects) IN
            /\ departments_map' = seed_departments_map(set)
            /\ subject_map' = seed_subject_map(set)
            /\ contact_map' = seed_contact_map(set)
            /\ pc' = IF is_array(Index(open_class_content.data, "estbLectDtaiList"))
                     THEN "loop" ELSE "exit"
    /\ UNCHANGED <<open_class_filename, class_todo_filename,
                   latest_app_version, db_version, open_class_content,
                   class_todo_content, quick_mode, i, lookup_args, temp,
                   result, db_file, prev_result>>

(***************************************************************************)
(* make_db_content, lines 248-293: one iteration of the merge loop.        *)
(***************************************************************************)
WhiteList ==
    {"trgtGrdeCd", "subjtNm", "ltrPrfsNm", "deptNm", "facDvnm", "timtSmryCn",
     "lssnLangNm", "subjtCd", "diclNo", "subjtEstbYear", "point", "cltTerrNm",
     "sexCdNm", "hffcStatNm", "clsfNm", "capprTypeNm"}

merged(subject, t) ==
    [f \in WhiteList \cup {"estbDpmjNm", "estbMjorNm"} |->
        IF f = "estbDpmjNm" THEN t.department
        ELSE IF f = "estbMjorNm" THEN t.major
        ELSE Index(subject, f)]

contact(t) == [email |-> t.email, mpno |-> t.phone]

upsert_keep_first(cmap, name, value) == cmap @@ (name :> value)
upsert(cmap, name, value) == (name :> value) @@ cmap

\* the unwrap() calls of lines 256-258 and 260
unwraps_fail(t) ==
    \/ ~is_str(t.department)
    \/ /\ ~is_null(t.major)
       /\ \/ t.department.s \notin DOMAIN departments_map
          \/ ~is_str(t.major)

merge_step ==
    /\ pc = "loop"
    /\ i < Len(open_subjects)
    /\ LET subject == open_subjects[i + 1]
           subject_code == as_str_or(Index(subject, "subjtCd"), "")
           dicl_number == as_str_or(Index(subject, "diclNo"), "")
           t == get_department_info(todo_subjects, subject_code, dicl_number)
       IN
       /\ lookup_args' = <<subject_code, dicl_number>>
       /\ temp' = t
       /\ IF unwraps_fail(t)
          THEN /\ pc' = "panic"
               /\ UNCHANGED <<departments_map, subject_map, contact_map, i>>
          ELSE LET d == t.department.s IN
               /\ departments_map' =
                      IF ~is_null(t.major)
                      THEN [departments_map EXCEPT ![d] = @ \cup {t.major.s}]
                      ELSE departments_map
               /\ subject_map' =
                      IF d \in DOMAIN subject_map
                      THEN [subject_map EXCEPT ![d] = Append(@, merged(subject, t))]
                      ELSE subject_map
               /\ contact_map' =
                      IF d \in DOMAIN contact_map
                      THEN [contact_map EXCEPT ![d] =
                               upsert(@, as_str_or(Index(subject, "ltrPrfsNm"), ""),
                                      contact(t))]
                      ELSE contact_map
               /\ i' = i + 1
               /\ pc' = "loop"
    /\ UNCHANGED <<open_class_filename, class_todo_filename,
                   latest_app_version, db_version, open_class_content,
                   class_todo_content, quick_mode, result, db_file,
                   prev_result>>

(***************************************************************************)
(* make_db_content, lines 294-305, and the write of file_process, lines    *)
(* 168-191.  A HashSet is serialized as an array in its iteration order,   *)
(* which the hasher's random keys decide: any order of the elements.  The  *)
(* maps become JSON objects, which serde_json keeps sorted by key.         *)
(***************************************************************************)
ArraysOf(S) ==
    {a \in [1..Cardinality(S) -> S] : \A m, n \in DOMAIN a : a[m] = a[n] => m = n}

Serializations(dmap) ==
    {f \in [DOMAIN dmap -> UNION {ArraysOf(dmap[d]) : d \in DOMAIN dmap}] :
        \A d \in DOMAIN dmap : f[d] \in ArraysOf(dmap[d])}

departments_key(quick) == IF quick THEN "departments_quick" ELSE "departments"
subjects_key(quick) == IF quick THEN "estbLectDtaiList_quick" ELSE "estbLectDtaiList"

document(quick, departments, subjects, contacts, app_ver, db_ver) ==
    (departments_key(quick) :> departments)
    @@ (subjects_key(quick) :> subjects)
    @@ ("contacts" :> contacts)
    @@ ("version" :> [app_ver |-> app_ver, db_ver |-> db_ver,
                      legacy_app_ver |-> "0.0"])

assemble ==
    /\ pc = "loop"
    /\ i = Len(open_subjects)
    /\ \E departments \in Serializations(departments_map) :
          /\ result' = document(quick_mode, departments, subject_map,
                                contact_map, latest_app_version, db_version)
          /\ db_file' = FileWritten(result')
    /\ pc' = "done"
    /\ UNCHANGED <<open_class_filename, class_todo_filename,
                   latest_app_version, db_version, open_class_content,
                   class_todo_content, quick_mode, departments_map,
                   subject_map, contact_map, i, lookup_args, temp,
                   prev_result>>

(***************************************************************************)
(* make_db_content called once more with the same five arguments.          *)
(***************************************************************************)
rerun ==
    /\ pc = "done"
    /\ prev_result = NoResult
    /\ prev_result' = result
    /\ result' = NoResult
    /\ departments_map' = EmptyMap
    /\ subject_map' = EmptyMap
    /\ contact_map' = EmptyMap
    /\ i' = 0
    /\ lookup_args' = <<"", "">>
    /\ temp' = new(Null, Null, Null, Null)
    /\ pc' = "call"
    /\ UNCHANGED <<open_class_filename, class_todo_filename,
                   latest_app_version, db_version, open_class_content,
                   class_todo_content, quick_mode, db_file>>

Next == file_process \/ make_db_content_begin \/ merge_step \/ assemble
Spec == Init /\ [][Next]_vars

NextRerun == Next \/ rerun
SpecRerun == Init /\ [][NextRerun]_vars


(***************************************************************************)
(* Vocabulary of the properties.                                           *)
(***************************************************************************)
Seeded == pc \in {"loop", "panic", "done"}
Looked == Seeded /\ (i > 0 \/ pc = "panic")

PairOf(subject) ==
    <<as_str_or(Index(subject, "subjtCd"), ""), as_str_or(Index(subject, "diclNo"), "")>>
NameOf(subject) == Index(subject, "ltrPrfsNm")

\* syllabus records whose (subject code, section number) is the pair p
PairHolders(p) == {k \in 1..Len(todo_subjects) : PairOf(todo_subjects[k]) = p}
\* syllabus records whose formatted key is the formatted key of the pair p
KeyHolders(p) ==
    {k \in 1..Len(todo_subjects) : subject_key(todo_subjects[k]) = format_key(p[1], p[2])}

SetMin(S) == CHOOSE x \in S : \A y \in S : x <= y
SetMax(S) == CHOOSE x \in S : \A y \in S : x >= y

AllAbsent == [department |-> Null, major |-> Null, email |-> Null, phone |-> Null]

\* what the lookup resolves for the j-th open-class record
Resolved(j) ==
    get_department_info(todo_subjects, PairOf(open_subjects[j])[1],
                        PairOf(open_subjects[j])[2])

SyllabusDepartments ==
    {IF is_str(Index(todo_subjects[k], "estbDpmjNm"))
     THEN Index(todo_subjects[k], "estbDpmjNm").s ELSE "" :
        k \in 1..Len(todo_subjects)}

\* C1: with both documents valid JSON holding the subject array, an
\* open-class record whose (subject code, section number) matches no syllabus
\* record does not abort make_db_content: the run never stops on such a record.
C1_UnmatchedRecordDoesNotAbort ==
    pc = "panic" => PairHolders(lookup_args) # {}

\* C2: get_department_info(subjects, code, section) returns the four fields of
\* a record of subjects whose (subject code, section number) equals
\* (code, section), a missing field as null, and four nulls when no record has
\* that pair.
C2_LookupByCompositeKey ==
    Looked =>
        IF PairHolders(lookup_args) = {}
        THEN temp = AllAbsent
        ELSE \E k \in PairHolders(lookup_args) :
                temp = [department |-> Index(todo_subjects[k], "estbDpmjNm"),
                        major |-> Index(todo_subjects[k], "estbMjorNm"),
                        email |-> Index(todo_subjects[k], "email"),
                        phone |-> Index(todo_subjects[k], "mpno")]

\* C3: after seeding and after any prefix of the open-class records, the keys
\* of the subjects map and of the contacts map are exactly the department
\* names of the syllabus records (a record without a department name counting
\* as the empty name); no open-class record adds a key.
C3_KeysAreSyllabusDepartments ==
    Seeded =>
        /\ DOMAIN subject_map = SyllabusDepartments
        /\ DOMAIN contact_map = SyllabusDepartments

C3_Witness ==
    /\ pc = "loop"
    /\ i = 2
    /\ Cardinality(DOMAIN subject_map) = 2
    /\ "" \in DOMAIN subject_map
    /\ \E d \in DOMAIN subject_map : subject_map[d] = <<>>
    /\ \E d \in DOMAIN subject_map : Len(subject_map[d]) = 2

\* C4: every open-class record the loop has finished whose (subject code,
\* section number) is that of a syllabus record has its merged record, with the
\* department and major of such a syllabus record, in the bucket of that
\* department.
C4_MergedUnderMatchedSyllabusRecord ==
    Seeded =>
        \A j \in 1..i :
            PairHolders(PairOf(open_subjects[j])) # {} =>
                \E k \in PairHolders(PairOf(open_subjects[j])) :
                    LET dep == Index(todo_subjects[k], "estbDpmjNm")
                        maj == Index(todo_subjects[k], "estbMjorNm")
                    IN /\ is_str(dep)
                       /\ dep.s \in DOMAIN subject_map
                       /\ \E m \in 1..Len(subject_map[dep.s]) :
                             /\ subject_map[dep.s][m].estbDpmjNm = dep
                             /\ subject_map[dep.s][m].estbMjorNm = maj
                             /\ \A f \in WhiteList :
                                   subject_map[dep.s][m][f] = Index(open_subjects[j], f)

\* C5: the contacts map is last-write-wins per (department, instructor name)
\* in open-class order: the one entry of a name under a department holds the
\* email and phone resolved for the latest finished record with that name
\* that resolved to that department.
C5_ContactLastWriteWins ==
    Seeded =>
        \A j \in 1..i :
            LET n == NameOf(open_subjects[j])
                d == Resolved(j).department
            IN (is_str(n) /\ is_str(d) /\ d.s \in DOMAIN contact_map) =>
                  LET same == {h \in 1..i : /\ NameOf(open_subjects[h]) = n
                                            /\ Resolved(h).department = d}
                      last == SetMax(same)
                  IN /\ n.s \in DOMAIN contact_map[d.s]
                     /\ contact_map[d.s][n.s] =
                            [email |-> Resolved(last).email, mpno |-> Resolved(last).phone]

C5_Witness ==
    /\ Seeded
    /\ i = 2
    /\ is_str(NameOf(open_subjects[1]))
    /\ NameOf(open_subjects[1]) = NameOf(open_subjects[2])
    /\ Resolved(1).department = Resolved(2).department
    /\ Resolved(1).phone # Resolved(2).phone
    /\ Cardinality(DOMAIN contact_map[Resolved(2).department.s]) = 1

\* C6 as stated: a department for which no open-class record resolved a major
\* is never a key of the output department taxonomy.
C6_NoMajorNoKey ==
    pc = "done" =>
        \A d \in DOMAIN result[IF quick_mode THEN "departments_quick" ELSE "departments"] :
            \E j \in 1..i : /\ Resolved(j).department = Str(d)
                            /\ ~is_null(Resolved(j).major)

\* C6 as amended: every department of the syllabus source is a key of the
\* department taxonomy, from seeding on and in the output; its array holds
\* exactly the majors resolved by the finished open-class records of that
\* department, so a department with no resolved major has an empty array.
C6_SeededDepartmentsAreKeys ==
    /\ Seeded => DOMAIN departments_map = SyllabusDepartments
    /\ pc = "done" =>
          LET out == result[IF quick_mode THEN "departments_quick" ELSE "departments"]
          IN /\ DOMAIN out = SyllabusDepartments
             /\ \A d \in DOMAIN out :
                   {out[d][m] : m \in 1..Len(out[d])} =
                       {Resolved(j).major.s :
                           j \in {h \in 1..i : /\ Resolved(h).department = Str(d)
                                               /\ ~is_null(Resolved(h).major)}}

C6_Witness ==
    /\ pc = "done"
    /\ \E d \in DOMAIN subject_map :
          /\ subject_map[d] # <<>>
          /\ result[IF quick_mode THEN "departments_quick" ELSE "departments"][d] = <<>>

\* C7 as stated: the quick_mode flag is true iff the two texts read are
\* identical, and the output has the _quick keys exactly then.
C7_QuickIffSameContent ==
    pc = "done" =>
        /\ quick_mode = (open_class_content = class_todo_content)
        /\ ("departments_quick" \in DOMAIN result)
               = (open_class_content = class_todo_content)

\* C7 as amended: the quick_mode flag is true iff the two file names given
\* are identical, and the output has the keys departments_quick and
\* estbLectDtaiList_quick exactly then, departments and estbLectDtaiList
\* otherwise.
C7_QuickIffSameFileName ==
    /\ db_file # FileAbsent =>
          quick_mode = (open_class_filename = class_todo_filename)
    /\ pc = "done" =>
          DOMAIN result =
              IF open_class_filename = class_todo_filename
              THEN {"departments_quick", "estbLectDtaiList_quick", "contacts", "version"}
              ELSE {"departments", "estbLectDtaiList", "contacts", "version"}

C7_Witness ==
    /\ pc = "done"
    /\ open_class_filename # class_todo_filename
    /\ open_class_content = class_todo_content
    /\ Len(open_subjects) > 0
    /\ "departments" \in DOMAIN result

\* C8: make_db_content is deterministic: a second call on the same texts,
\* version strings and quick_mode returns the same text as the first,
\* the order of the majors in each department's array included.
C8_RerunSameOutput ==
    (pc = "done" /\ prev_result # NoResult) => result = prev_result

\* C9 as stated: when several syllabus records have the key of the lookup,
\* the lookup resolves to the last of them in syllabus order.
C9_LastDuplicateWins ==
    (Looked /\ Cardinality(KeyHolders(lookup_args)) >= 2) =>
        LET s == todo_subjects[SetMax(KeyHolders(lookup_args))]
        IN temp = [department |-> Index(s, "estbDpmjNm"), major |-> Index(s, "estbMjorNm"),
                   email |-> Index(s, "email"), phone |-> Index(s, "mpno")]

\* C9 as amended: when several syllabus records have the key of the lookup
\* (the text subject code, "-", section number, a missing part being empty),
\* the lookup resolves to the first of them in syllabus order.
C9_FirstDuplicateWins ==
    (Looked /\ Cardinality(KeyHolders(lookup_args)) >= 2) =>
        LET s == todo_subjects[SetMin(KeyHolders(lookup_args))]
        IN temp = [department |-> Index(s, "estbDpmjNm"), major |-> Index(s, "estbMjorNm"),
                   email |-> Index(s, "email"), phone |-> Index(s, "mpno")]

C9_Witness ==
    /\ Looked
    /\ lookup_args = <<"", "">>
    /\ Cardinality(PairHolders(<<"", "">>)) = 2
    /\ is_null(Index(todo_subjects[1], "subjtCd"))
    /\ is_null(Index(todo_subjects[2], "diclNo"))
    /\ Index(todo_subjects[1], "estbDpmjNm") # Index(todo_subjects[2], "estbDpmjNm")
    /\ temp.department = Index(todo_subjects[1], "estbDpmjNm")

\* C10: every key of every department's contact map is the instructor name
\* of a finished open-class record that carried one; a record without an
\* instructor name adds no entry.
C10_ContactKeysAreCarriedNames ==
    Seeded =>
        \A d \in DOMAIN contact_map :
            \A n \in DOMAIN contact_map[d] :
                \E j \in 1..i : /\ is_str(NameOf(open_subjects[j]))
                                /\ NameOf(open_subjects[j]).s = n

====
